---- MODULE Spec2Model ----
(***************************************************************************)
(* A model of src/modules/core/transition_composite.c: the geometry        *)
(* parser, the interpolation and alignment of geometries, the scale        *)
(* negotiation of the overlay (b_frame), the per-field YUV 4:2:2 blend and  *)
(* the driver transition_get_image.                                         *)
(*                                                                         *)
(* C float/double values are modelled by exact rationals <<n, d>> in       *)
(* lowest terms with d > 0.  C int division and remainder truncate toward  *)
(* zero (CDiv, CRem).  A char* is a sequence of one-character strings and  *)
(* a position in it; position Len+1 is the terminating NUL.                *)
(***************************************************************************)
EXTENDS Integers, Sequences, FiniteSets, TLC

VARIABLES
    pc,        \* position of the call being modelled
    props,     \* the inputs of the call: properties of the transition and frames
    start,     \* struct geometry_s start  (transition_get_image)
    end,       \* struct geometry_s end
    result,    \* struct geometry_s result
    conv,      \* per field of the last geometry_parse: how parse_value resolved it
    image,     \* the a_frame's image buffer (destination of the blend)
    size_b,    \* <<width_b, height_b>> after get_b_frame_image
    io,        \* requests to the frame supplier, blend passes, buffer accesses
    ret        \* value returned by the call

vars == <<pc, props, start, end, result, conv, image, size_b, io, ret>>

\* A char* that is NULL, and a struct geometry_s* that is NULL.
Null == <<"NULL">>
NullGeometry == [null |-> TRUE]
IsNullGeometry(g) == "null" \in DOMAIN g

(***************************************************************************)
(* C arithmetic.                                                           *)
(***************************************************************************)
Abs(a) == IF a < 0 THEN -a ELSE a

\* C99 integer division: truncation toward zero (b # 0).
CDiv(a, b) ==
    LET q == Abs(a) \div Abs(b)
    IN  IF (a < 0) = (b < 0) THEN q ELSE -q

\* C99 remainder: a == (a/b)*b + a%b, sign of the dividend.
CRem(a, b) == a - CDiv(a, b) * b

RECURSIVE GCD(_, _)
GCD(a, b) == IF b = 0 THEN a ELSE GCD(b, a % b)

\* The rational n/d in lowest terms, d > 0.
Rat(n, d) ==
    LET g == GCD(Abs(n), Abs(d))
        s == IF d < 0 THEN -1 ELSE 1
    IN  <<(s * n) \div g, (s * d) \div g>>

RInt(i) == <<i, 1>>
RAdd(a, b) == Rat(a[1] * b[2] + b[1] * a[2], a[2] * b[2])
RSub(a, b) == Rat(a[1] * b[2] - b[1] * a[2], a[2] * b[2])
RMul(a, b) == Rat(a[1] * b[1], a[2] * b[2])
RDiv(a, b) == Rat(a[1] * b[2], a[2] * b[1])
RLt(a, b) == a[1] * b[2] < b[1] * a[2]
RLe(a, b) == a[1] * b[2] <= b[1] * a[2]
Half == <<1, 2>>

\* Conversion of a float/double to int: the fraction is discarded.
RTrunc(a) == CDiv(a[1], a[2])

(***************************************************************************)
(* parse_value and geometry_parse.                                         *)
(***************************************************************************)
Digits == <<"0", "1", "2", "3", "4", "5", "6", "7", "8", "9">>
HexLetters == <<"a", "b", "c", "d", "e", "f">>

DigitVal(c) == (CHOOSE k \in 1..10 : Digits[k] = c) - 1
IsDigit(c) == \E k \in 1..10 : Digits[k] = c
IsHex(c) == IsDigit(c) \/ \E k \in 1..6 : HexLetters[k] = c
HexVal(c) == IF IsDigit(c) THEN DigitVal(c)
             ELSE 9 + (CHOOSE k \in 1..6 : HexLetters[k] = c)

\* The character at position i of text s; the terminating NUL past its end.
CharAt(s, i) == IF i \in 1..Len(s) THEN s[i] ELSE "NUL"

RECURSIVE SkipSpace(_, _)
SkipSpace(s, i) == IF CharAt(s, i) = " " THEN SkipSpace(s, i + 1) ELSE i

\* The run of digits of the given base from position i: [val, end].
RECURSIVE ScanDigits(_, _, _, _)
ScanDigits(s, i, base, acc) ==
    LET c == CharAt(s, i)
    IN  IF base = 10 /\ IsDigit(c)
        THEN ScanDigits(s, i + 1, base, acc * 10 + DigitVal(c))
        ELSE IF base = 16 /\ IsHex(c)
        THEN ScanDigits(s, i + 1, base, acc * 16 + HexVal(c))
        ELSE [val |-> acc, end |-> i]

\* Where the digits of the number start and its sign, from the first
\* character after the white space.
NumberStart(s, i) == IF CharAt(s, i) \in {"-", "+"} THEN i + 1 ELSE i
NumberSign(s, i) == IF CharAt(s, i) = "-" THEN -1 ELSE 1

\* "0x" followed by a hexadecimal digit.
IsHexAt(s, j) ==
    CharAt(s, j) = "0" /\ CharAt(s, j + 1) = "x" /\ IsHex(CharAt(s, j + 2))

ScanNumber(s, j) ==
    IF IsHexAt(s, j) THEN ScanDigits(s, j + 2, 16, 0) ELSE ScanDigits(s, j, 10, 0)

\* With no conversion (no digit was read) the value is 0 and end is ptr.
StrtodResult(ptr, j, sgn, d) ==
    IF d.end = j
    THEN [val |-> RInt(0), end |-> ptr]
    ELSE [val |-> RInt(sgn * d.val), end |-> d.end]

StrtodFrom(s, ptr, i) ==
    StrtodResult(ptr, NumberStart(s, i), NumberSign(s, i), ScanNumber(s, NumberStart(s, i)))

\* strtod( ptr, &end ) on the texts over Chars: leading white space, an
\* optional sign, then a hexadecimal ("0x" and hex digits) or a decimal
\* integer.
Strtod(s, ptr) == StrtodFrom(s, ptr, SkipSpace(s, ptr))

RECURSIVE SkipDelim(_, _, _)
SkipDelim(s, i, delim) ==
    IF CharAt(s, i) \in {delim, "%"} THEN SkipDelim(s, i + 1, delim) ELSE i

\* Lines 57-64 of parse_value, r being what strtod returned: the percentage
\* of the normalisation, and the pointer moved past delimiters.  kind
\* records which path produced the value: "unparsed" (strtod converted
\* nothing) or "parsed".
parse_number(s, ptr, normalisation, delim, r) ==
    [value |-> IF CharAt(s, r.end) = "%"
               THEN RMul(RDiv(r.val, RInt(100)), RInt(normalisation))
               ELSE r.val,
     ptr |-> SkipDelim(s, r.end, delim),
     kind |-> IF r.end = ptr THEN "unparsed" ELSE "parsed"]

\* parse_value( &ptr, normalisation, delim, defaults ): [value, ptr, kind],
\* of kind "absent" when *ptr is at the NUL and the default is returned.
\* *ptr is never NULL here: geometry_parse passes a non-NULL property and
\* strtod never stores a NULL end.
parse_value(s, ptr, normalisation, delim, defaults) ==
    IF CharAt(s, ptr) # "NUL"
    THEN parse_number(s, ptr, normalisation, delim, Strtod(s, ptr))
    ELSE [value |-> defaults, ptr |-> ptr, kind |-> "absent"]

\* The five fields of X,Y:WxH:MIX in the order of lines 99-103, the
\* delimiter that ends each and what a percentage of each refers to.
FieldSeq == <<"x", "y", "w", "h", "mix">>
FieldNames == {"x", "y", "w", "h", "mix"}
Delims == <<",", ":", "x", ":", " ">>
Normalisation(f, nw, nh) ==
    CASE f \in {"x", "w"} -> nw
      [] f \in {"y", "h"} -> nh
      [] OTHER -> 100

\* The value of field f of geometry g.
FieldOf(g, f) ==
    CASE f = "x" -> g.x
      [] f = "y" -> g.y
      [] f = "w" -> g.w
      [] f = "h" -> g.h
      [] OTHER -> g.mix

\* geometry->f = value; w and h are assigned through the int members sw and
\* sh ( geometry->w = geometry->sw = value ), so they hold the truncated value.
Assign(g, f, value) ==
    CASE f = "x" -> [g EXCEPT !.x = value]
      [] f = "y" -> [g EXCEPT !.y = value]
      [] f = "w" -> [g EXCEPT !.sw = RTrunc(value), !.w = RInt(RTrunc(value))]
      [] f = "h" -> [g EXCEPT !.sh = RTrunc(value), !.h = RInt(RTrunc(value))]
      [] OTHER -> [g EXCEPT !.mix = value]

\* Lines 99-103: the fields k..5 parsed in turn from ptr, each with the
\* geometry's current value as its default.  kinds collects the kind of
\* every parse_value call.
RECURSIVE parse_fields(_, _, _, _, _)
RECURSIVE parse_field(_, _, _, _, _)
parse_fields(property, g, kinds, ptr, k) ==
    IF k > 5 THEN <<g, kinds>>
    ELSE parse_field(property, g, kinds, k,
                     parse_value(property, ptr, Normalisation(FieldSeq[k], g.nw, g.nh),
                                 Delims[k], FieldOf(g, FieldSeq[k])))
parse_field(property, g, kinds, k, r) ==
    parse_fields(property, Assign(g, FieldSeq[k], r.value),
                 [kinds EXCEPT ![FieldSeq[k]] = r.kind], r.ptr, k + 1)

NoConv == [f \in FieldNames |-> "none"]

\* Lines 78-93: nw, nh and the defaults.  geometry holds what the caller's
\* struct held before the call.
geometry_defaults(geometry, defaults, nw, nh) ==
    IF ~IsNullGeometry(defaults)
    THEN [geometry EXCEPT !.nw = nw, !.nh = nh,
                          !.x = defaults.x, !.y = defaults.y,
                          !.sw = RTrunc(defaults.w), !.w = RInt(RTrunc(defaults.w)),
                          !.sh = RTrunc(defaults.h), !.h = RInt(RTrunc(defaults.h)),
                          !.mix = defaults.mix]
    ELSE [geometry EXCEPT !.nw = nw, !.nh = nh, !.mix = RInt(100)]

\* Lines 96-104.
geometry_property(g, property) ==
    IF property = Null THEN <<g, NoConv>>
    ELSE parse_fields(property, g, NoConv, 1, 1)

\* geometry_parse( geometry, defaults, property, nw, nh ): the geometry, and
\* the kind of every field's parse_value call ("none": property is NULL).
geometry_parse(geometry, defaults, property, nw, nh) ==
    geometry_property(geometry_defaults(geometry, defaults, nw, nh), property)

(***************************************************************************)
(* geometry_calculate and alignment_calculate.                             *)
(***************************************************************************)
\* in + ( out - in ) * position
Lerp(a, b, position) == RAdd(a, RMul(RSub(b, a), position))

\* geometry_calculate( output, in, out, position ): sw, sh, halign and valign
\* of output are left as they were.
geometry_calculate(output, in, out, position) ==
    [output EXCEPT !.nw = in.nw, !.nh = in.nh,
                   !.x = RAdd(Lerp(in.x, out.x, position), Half),
                   !.y = RAdd(Lerp(in.y, out.y, position), Half),
                   !.w = Lerp(in.w, out.w, position),
                   !.h = Lerp(in.h, out.h, position),
                   !.mix = Lerp(in.mix, out.mix, position)]

\* ( box - scaled ) * align / 2 + 0.5
AlignOffset(box, scaled, align) ==
    RAdd(RDiv(RMul(RSub(box, RInt(scaled)), RInt(align)), RInt(2)), Half)

\* alignment_calculate( geometry )
alignment_calculate(geometry) ==
    [geometry EXCEPT !.x = RAdd(@, AlignOffset(geometry.w, geometry.sw, geometry.halign)),
                     !.y = RAdd(@, AlignOffset(geometry.h, geometry.sh, geometry.valign))]

(***************************************************************************)
(* composite_yuv.  A buffer is a function from its byte offsets 0..n-1;    *)
(* p_alpha is NullAlpha or Alpha(buffer).  A pointer is the offset from    *)
(* the start of the buffer it was derived from, so an offset outside       *)
(* 0..n-1 is an access outside the buffer.                                 *)
(***************************************************************************)
NullAlpha == [null |-> TRUE, bytes |-> <<>>]
Alpha(buffer) == [null |-> FALSE, bytes |-> buffer]

\* value * extent / normalised + 0.5, converted to int (lines 206-207).
ConsumerScale(value, extent, normalised) ==
    RTrunc(RAdd(RDiv(RMul(value, RInt(extent)), RInt(normalised)), Half))

\* x -= x % 2
Even(x) == x - CRem(x, 2)

\* The early returns of lines 212-216: no work to do.
NoWork(x, y, width_src, height_src) ==
    \/ width_src <= 0 \/ height_src <= 0
    \/ (x < 0 /\ -x >= width_src) \/ (y < 0 /\ -y >= height_src)

\* Lines 219-238 for one axis, at = x or y: the first source column/row
\* and the cropped source extent.
CropOrigin(at) == IF at < 0 THEN -at ELSE 0

\* CropExtent without "width_src -= x_src" / "height_src -= y_src".
CropExtent_KeepsExtent(at, extent_src, extent_dest) ==
    IF at < 0 THEN extent_src
    ELSE IF at + extent_src > extent_dest THEN extent_dest - at
    ELSE extent_src

CropExtent(at, extent_src, extent_dest) ==
    IF at < 0 THEN extent_src - (-at)
    ELSE IF at + extent_src > extent_dest THEN extent_dest - at
    ELSE extent_src

\* Lines 219-224 set x to 0 when it is negative; y is left as it is.
CroppedX(x) == IF x < 0 THEN 0 ELSE x

\* Line 244, and the field alignment of lines 254-260.
DestOrigin(x, y, stride_dest) ==
    (IF CroppedX(x) < 0 THEN 0 ELSE CroppedX(x)) * 2 + (IF y < 0 THEN 0 ELSE y) * stride_dest
FieldShift(y, field, stride_dest) ==
    IF field > -1 /\ CRem(y, 2) = field
    THEN IF y = 0 THEN stride_dest ELSE -stride_dest
    ELSE 0

\* Lines 198-280 of composite_yuv, x and y being the resolved pixel position
\* of lines 206-209: the cropped extents, the three pointers and the row
\* step.  skip is the early "no work to do" return.
composite_crop(width_dest, height_dest, width_src, height_src, mix, field, x, y) ==
    [skip |-> NoWork(x, y, width_src, height_src),
     x |-> CroppedX(x), y |-> y,
     x_src |-> CropOrigin(x), y_src |-> CropOrigin(y),
     width_src |-> CropExtent(x, width_src, width_dest),
     height_src |-> CropExtent(y, height_src, height_dest) - (IF field = 1 THEN 1 ELSE 0),
     p_src |-> CropOrigin(x) * 2 + CropOrigin(y) * (width_src * 2)
               + (IF field = 1 THEN width_src * 2 ELSE 0),
     p_dest |-> DestOrigin(x, y, width_dest * 2) + FieldShift(y, field, width_dest * 2),
     p_alpha |-> CropOrigin(x) + CDiv(CropOrigin(y) * (width_src * 2), 2)
                 + (IF field = 1 THEN CDiv(width_src * 2, 2) ELSE 0),
     stride_src |-> width_src * 2, stride_dest |-> width_dest * 2,
     step |-> IF field > -1 THEN 2 ELSE 1,
     weight |-> RDiv(mix, RInt(100))]

composite_extent(width_dest, height_dest, width_src, height_src, geometry, field) ==
    composite_crop(width_dest, height_dest, width_src, height_src, geometry.mix, field,
                   Even(ConsumerScale(geometry.x, width_dest, geometry.nw)),
                   ConsumerScale(geometry.y, height_dest, geometry.nh))

\* The number of ( i, j ) iterations of the loops of lines 283-300.
PixelCount(e) ==
    IF e.skip \/ e.height_src <= 0 \/ e.width_src <= 0 THEN 0
    ELSE ((e.height_src + e.step - 1) \div e.step) * e.width_src

\* The k-th iteration (k in 1..PixelCount): its row i and column j.
PixelRow(e, k) == ((k - 1) \div e.width_src) * e.step
PixelCol(e, k) == (k - 1) % e.width_src

\* The offsets of the source pixel, the alpha byte and the destination
\* pixel of iteration k (lines 285-289 and the increments of 293-298).
SrcAt(e, k) == e.p_src + PixelRow(e, k) * e.stride_src + 2 * PixelCol(e, k)
AlphaAt(e, k) == e.p_alpha + CDiv(PixelRow(e, k) * e.stride_src, 2) + PixelCol(e, k)
DestAt(e, k) == e.p_dest + PixelRow(e, k) * e.stride_dest + 2 * PixelCol(e, k)

\* The byte a read outside a buffer yields: indeterminate.
Indeterminate == -1

\* *p of a buffer at an offset.
Load(buffer, offset) ==
    IF offset \in DOMAIN buffer THEN buffer[offset] ELSE Indeterminate

\* *o = v: a store outside the buffer does not reach the buffer.
Store(buffer, offset, v) ==
    IF offset \in DOMAIN buffer THEN [buffer EXCEPT ![offset] = v] ELSE buffer

\* a = ( z == NULL ) ? 255 : *z ++
AlphaByte(p_alpha, offset) ==
    IF p_alpha.null THEN 255 ELSE Load(p_alpha.bytes, offset)

\* blend_value without the alpha mask: value = weight.
blend_value_IgnoresAlpha(weight, a) ==
    IF a = Indeterminate THEN <<-1, 1>> ELSE weight

\* value = ( weight * ( float ) a / 255.0 )
blend_value(weight, a) ==
    IF a = Indeterminate THEN <<-1, 1>> ELSE RDiv(RMul(weight, RInt(a)), RInt(255))

\* (uint8_t)( s * value + q * ( 1 - value ) ), lines 297-298.
blend_sample(s, q, value) ==
    IF s = Indeterminate \/ q = Indeterminate \/ value[1] < 0 THEN Indeterminate
    ELSE RTrunc(RAdd(RMul(RInt(s), value), RMul(RInt(q), RSub(RInt(1), value))))

\* *o ++ = (uint8_t)( *p ++ * value + *q++ * ( 1 - value ) ) for one sample.
blend_store(dest, p_src, s, d, value) ==
    Store(dest, d, blend_sample(Load(p_src, s), Load(dest, d), value))

\* One iteration of the inner loop: the luma and the chroma sample.
blend_at(dest, p_src, s, d, value) ==
    blend_store(blend_store(dest, p_src, s, d, value), p_src, s + 1, d + 1, value)

blend_pixel(dest, p_src, p_alpha, e, k) ==
    blend_at(dest, p_src, SrcAt(e, k), DestAt(e, k),
             blend_value(e.weight, AlphaByte(p_alpha, AlphaAt(e, k))))

\* The destination buffer after iterations k..n of the loops.
RECURSIVE blend_loop(_, _, _, _, _, _)
blend_loop(dest, p_src, p_alpha, e, k, n) ==
    IF k > n THEN dest
    ELSE blend_loop(blend_pixel(dest, p_src, p_alpha, e, k), p_src, p_alpha, e, k + 1, n)

\* The offsets the first n iterations read in the source, read in the alpha
\* mask and write in the destination.
SrcReads(e, n) == UNION {{SrcAt(e, k), SrcAt(e, k) + 1} : k \in 1..n}
AlphaReads(e, p_alpha, n) ==
    IF p_alpha.null THEN {} ELSE {AlphaAt(e, k) : k \in 1..n}
DestWrites(e, n) == UNION {{DestAt(e, k), DestAt(e, k) + 1} : k \in 1..n}

\* Whether iteration k accesses a byte outside one of the three buffers.
OutOfBounds(dest, p_src, p_alpha, e, k) ==
    \/ {SrcAt(e, k), SrcAt(e, k) + 1} \ DOMAIN p_src # {}
    \/ {DestAt(e, k), DestAt(e, k) + 1} \ DOMAIN dest # {}
    \/ ~p_alpha.null /\ AlphaAt(e, k) \notin DOMAIN p_alpha.bytes

\* The loops of lines 283-300 run for their first n iterations: the
\* destination buffer and the offsets accessed.
composite_loop(p_dest, p_src, p_alpha, e, n) ==
    [dest |-> blend_loop(p_dest, p_src, p_alpha, e, 1, n),
     reads |-> SrcReads(e, n),
     areads |-> AlphaReads(e, p_alpha, n),
     writes |-> DestWrites(e, n)]

\* composite_yuv( p_dest, width_dest, height_dest, p_src, width_src,
\* height_src, p_alpha, geometry, field ), run to its return.
composite_yuv(p_dest, width_dest, height_dest, p_src, width_src, height_src,
              p_alpha, geometry, field) ==
    composite_loop(p_dest, p_src, p_alpha,
                   composite_extent(width_dest, height_dest, width_src, height_src,
                                    geometry, field),
                   PixelCount(composite_extent(width_dest, height_dest, width_src,
                                               height_src, geometry, field)))

\* The iterations at which composite_yuv may end instead of returning: an
\* access outside a buffer is undefined behaviour, and the process may be
\* ended by it (the iterations before it having run) or may go on.
FaultPoints(p_dest, p_src, p_alpha, e) ==
    {k - 1 : k \in {i \in 1..PixelCount(e) : OutOfBounds(p_dest, p_src, p_alpha, e, i)}}

(***************************************************************************)
(* get_b_frame_image.  The aspect ratios are rationals; a scaled size is   *)
(* the pair <<scaled_width, scaled_height>>.                               *)
(***************************************************************************)
\* InitialScale with one pixel more than the converted sizes.
InitialScale_OneMore(geometry) ==
    [geometry EXCEPT !.sw = RTrunc(geometry.w) + 1, !.sh = RTrunc(geometry.h) + 1]

\* geometry->sw = geometry->w; geometry->sh = geometry->h  (int from float)
InitialScale(geometry) ==
    [geometry EXCEPT !.sw = RTrunc(geometry.w), !.sh = RTrunc(geometry.h)]

\* output_sar = ( double ) geometry->nw / geometry->nh / output_ar
OutputSar(geometry, output_ar) ==
    RDiv(RDiv(RInt(geometry.nw), RInt(geometry.nh)), output_ar)

\* Lines 342-350: stretch the input vertically or horizontally.
AspectScale(real_width, real_height, input_ar, output_sar) ==
    IF RLt(output_sar, RInt(1))
    THEN <<real_width, RTrunc(RDiv(RDiv(RInt(real_width), input_ar), output_sar))>>
    ELSE <<RTrunc(RMul(RMul(output_sar, RInt(real_height)), input_ar)), real_height>>

\* a / b of two ints; where the division by 0 does not trap it yields 0.
Quotient(a, b) == IF b = 0 THEN 0 ELSE CDiv(a, b)

\* Lines 355-359.
FitWidth(s, normalised_width) ==
    IF s[1] > normalised_width
    THEN <<normalised_width, Quotient(s[2] * normalised_width, s[1])>>
    ELSE s

\* Lines 360-364.
FitHeight(s, normalised_height) ==
    IF s[2] > normalised_height
    THEN <<Quotient(s[1] * normalised_height, s[2]), normalised_height>>
    ELSE s

\* Lines 355-364 with normalised_width = geometry->w, normalised_height =
\* geometry->h.
Fit(geometry, s) ==
    FitHeight(FitWidth(s, RTrunc(geometry.w)), RTrunc(geometry.h))

\* One of the two divisions of lines 357 and 362 divides by 0.
DividesByZero(geometry, s) ==
    \/ s[1] > RTrunc(geometry.w) /\ s[1] = 0
    \/ FitWidth(s, RTrunc(geometry.w))[2] > RTrunc(geometry.h)
          /\ FitWidth(s, RTrunc(geometry.w))[2] = 0

\* Lines 374-379.
Adopt(geometry, s) ==
    IF RLe(RInt(s[1]), geometry.w) /\ RLe(RInt(s[2]), geometry.h)
    THEN [geometry EXCEPT !.sw = s[1], !.sh = s[2]]
    ELSE geometry

\* The aspect-corrected size of lines 328-350 for the b_frame of b.
AspectSize(geometry, b) ==
    AspectScale(b.real_width, b.real_height, b.input_ar, OutputSar(geometry, b.output_ar))

\* Lines 315-380: the scaled dimensions; distort is the transition's
\* "distort" property and b holds real_width, real_height, the aspect ratio
\* and consumer_aspect_ratio of the b_frame.
scale_size(geometry, distort, b) ==
    IF distort # Null THEN InitialScale(geometry)
    ELSE Adopt(InitialScale(geometry), Fit(geometry, AspectSize(geometry, b)))

\* The process may end at the divisions of lines 357 and 362.
scale_faults(geometry, distort, b) ==
    distort = Null /\ DividesByZero(geometry, AspectSize(geometry, b))

\* Lines 389-394, on the aligned geometry: x, y, *width and *height.
PixelX(geometry, width) == Even(ConsumerScale(geometry.x, width, geometry.nw))
PixelY(geometry, height) == ConsumerScale(geometry.y, height, geometry.nh)
ScaledWidth(geometry, width) == CDiv(geometry.sw * width, geometry.nw)
ScaledHeight(geometry, height) == CDiv(geometry.sh * height, geometry.nh)

\* The returns of lines 399-403 without the test of the position.
NothingToDraw_IgnoresPosition(x, y, width, height) ==
    width <= 0 \/ height <= 0

\* The returns of lines 399-403: no work to do.
NothingToDraw(x, y, width, height) ==
    \/ width <= 0 \/ height <= 0
    \/ (x < 0 /\ -x >= width) \/ (y < 0 /\ -y >= height)

\* Lines 315-386: the geometry get_b_frame_image leaves in *geometry.
get_b_frame_image(geometry, distort, b) ==
    alignment_calculate(scale_size(geometry, distort, b))

(***************************************************************************)
(* alignment_parse, position_calculate and delta_calculate.                *)
(***************************************************************************)
\* alignment_parse( align ); atoi of a text that starts with a digit is the
\* value of its leading digits.
alignment_parse(align) ==
    IF align = Null THEN 0
    ELSE IF IsDigit(CharAt(align, 1)) THEN ScanDigits(align, 1, 10, 0).val
    ELSE IF CharAt(align, 1) \in {"c", "m"} THEN 1
    ELSE IF CharAt(align, 1) \in {"r", "b"} THEN 2
    ELSE 0

(***************************************************************************)
(* The single-precision arithmetic of position_calculate, delta_calculate  *)
(* and field_position.  A float >= 0 is <<m, e>>, the value m / 2^e: 0 is   *)
(* <<0, 0>>, any other has 2^(Mantissa-1) <= m < 2^Mantissa.  Operations    *)
(* round to the nearest float, ties to the even mantissa.                  *)
(***************************************************************************)
Mantissa == 24

RECURSIVE Pow2(_)
Pow2(k) == IF k <= 0 THEN 1 ELSE 2 * Pow2(k - 1)

RECURSIVE BitLength(_)
BitLength(m) == IF m = 0 THEN 0 ELSE 1 + BitLength(m \div 2)

FZero == <<0, 0>>

\* The float of mantissa q (of Mantissa bits, or 2^Mantissa after rounding
\* up) and exponent e.
FNormal(q, e) ==
    IF q = Pow2(Mantissa) THEN <<Pow2(Mantissa - 1), e - 1>> ELSE <<q, e>>

\* q rounded up when the dropped part r is above half, or at half with q odd.
RoundUp(q, r, half) ==
    IF r > half \/ (r = half /\ q % 2 = 1) THEN q + 1 ELSE q

\* m / 2^e with the s low bits of m dropped.
FDropBits(m, e, s) ==
    FNormal(RoundUp(m \div Pow2(s), m % Pow2(s), Pow2(s - 1)), e - s)

\* The float nearest to m / 2^e, m an integer of b bits.
FRoundBits(m, e, b) ==
    IF b = 0 THEN FZero
    ELSE IF b <= Mantissa THEN <<m * Pow2(Mantissa - b), e + Mantissa - b>>
    ELSE FDropBits(m, e, b - Mantissa)

FRound(m, e) == FRoundBits(m, e, BitLength(m))

\* ( float ) k of an int k >= 0, and the int a float holds.
FFromInt(k) == FRound(k, 0)
FInt(a) == IF a[2] <= 0 THEN a[1] * Pow2(-a[2]) ELSE a[1] \div Pow2(a[2])

\* The number of doublings of a that bring it to b <= a * 2^k < 2 * b.
RECURSIVE Doublings(_, _)
Doublings(a, b) == IF a >= b THEN 0 ELSE 1 + Doublings(2 * a, b)

\* Long division: i more bits of the quotient q, r being the remainder.
RECURSIVE DivBits(_, _, _, _)
DivBits(q, r, b, i) ==
    IF i = 0 THEN RoundUp(q, 2 * r, b)
    ELSE IF 2 * r >= b THEN DivBits(2 * q + 1, 2 * r - b, b, i - 1)
    ELSE DivBits(2 * q, 2 * r, b, i - 1)

\* a / b of the ints 0 <= a <= b, b > 0, after k doublings of a.
FDivInts(a, b, k) ==
    FNormal(DivBits(1, a * Pow2(k) - b, b, Mantissa - 1), Mantissa - 1 + k)

\* x / y of two floats that hold ints, 0 <= x <= y, y > 0.
FDiv(x, y) ==
    IF x = FZero THEN FZero
    ELSE FDivInts(FInt(x), FInt(y), Doublings(FInt(x), FInt(y)))

\* x <= y
FLe(x, y) ==
    x = FZero \/ (y # FZero /\ (x[2] > y[2] \/ (x[2] = y[2] /\ x[1] <= y[1])))

\* y - x of two floats x <= y less than a factor of 2^6 apart.
FSub(y, x) ==
    IF x = FZero THEN y
    ELSE FRound(y[1] * Pow2(x[2] - y[2]) - x[1], x[2])

\* x / 2.0
FHalf(x) == IF x = FZero THEN FZero ELSE <<x[1], x[2] + 1>>

\* field * x of the field 0 or 1
FTimesField(field, x) == IF field = 0 THEN FZero ELSE x

\* m with its s low bits dropped, the lowest kept bit set when a dropped
\* bit was (the sticky bit of the addition).
Sticky(m, s) ==
    IF s <= 0 THEN m * Pow2(-s)
    ELSE IF s >= 30 THEN 1
    ELSE IF m % Pow2(s) # 0 /\ (m \div Pow2(s)) % 2 = 0 THEN m \div Pow2(s) + 1
    ELSE m \div Pow2(s)

\* x + y of floats y <= x, both above 0: three more bits than x has.
FAddOrdered(x, y) ==
    FRound(8 * x[1] + Sticky(y[1], y[2] - x[2] - 3), x[2] + 3)

\* x + y
FAdd(x, y) ==
    IF x = FZero THEN y
    ELSE IF y = FZero THEN x
    ELSE IF FLe(y, x) THEN FAddOrdered(x, y)
    ELSE FAddOrdered(y, x)

\* A float of at most 30 binary places as a rational.
FRat(x) == IF x[2] <= 0 THEN RInt(FInt(x)) ELSE Rat(x[1], Pow2(x[2]))

\* position_calculate with the frames counted from 1.
position_calculate_FromOne(in, out, position) ==
    FDiv(FFromInt(position - in + 1), FFromInt(out - in + 1))

\* position_calculate: ( float )( position - in ) / ( float )( out - in + 1 )
position_calculate(in, out, position) ==
    FDiv(FFromInt(position - in), FFromInt(out - in + 1))

\* delta_calculate: half the step of the position from this frame to the next
delta_calculate(in, out, position) ==
    FHalf(FSub(position_calculate(in, out, position + 1),
               position_calculate(in, out, position)))

(***************************************************************************)
(* Inputs of the parser: geometry texts and the normalised frame size.     *)
(***************************************************************************)
MaxLen == 3
NormW == 200
NormH == 100

\* The characters of the modelled texts: digits, sign, the delimiters of
\* X,Y:WxH:MIX, the percent sign, white space and a letter.
Chars == {"0", "7", "-", ",", ":", "x", "%", "a", " "}

RECURSIVE TextsOfLen(_)
TextsOfLen(n) ==
    IF n = 0 THEN {<<>>}
    ELSE {Append(t, c) : t \in TextsOfLen(n - 1), c \in Chars}

ShortTexts == UNION {TextsOfLen(n) : n \in 0..MaxLen}

\* "7,70:70x7:70", "7%,7%:70%x70%", "70,7" and the constructor's "end" (""),
\* as properties of the transition; Null is a property that is not set.
SampleTexts ==
    {Null,
     <<>>,
     <<"7", ",", "7", "0", ":", "7", "0", "x", "7", ":", "7", "0">>,
     <<"7", "%", ",", "7", "%", ":", "7", "0", "%", "x", "7", "0", "%">>,
     <<"7", "0", ",", "7">>,
     <<"-", "7", ",", "0", ":", "7", "0", "x", "7", "0", ":", "0">>}

\* What the members of an uninitialised struct geometry_s on the stack may
\* hold: any value; two of them are kept.
Garbage == {RInt(0), RInt(13)}

\* An uninitialised struct geometry_s.  x, y, w and h are read by
\* geometry_parse when no defaults are given; the other members are written
\* before they are read (nw, nh, mix, halign, valign) or never read (the sw
\* and sh of start and end), so one value stands for them.
Uninitialised ==
    [nw : {0}, nh : {0}, sw : {0}, sh : {0},
     x : Garbage, y : Garbage, w : Garbage, h : Garbage, mix : {RInt(0)},
     halign : {0}, valign : {0}]

NoGeometry == [nw |-> 0, nh |-> 0, sw |-> 0, sh |-> 0, x |-> RInt(0), y |-> RInt(0),
               w |-> RInt(0), h |-> RInt(0), mix |-> RInt(0), halign |-> 0, valign |-> 0]
NoIo == [log |-> <<>>, reads |-> {}, areads |-> {}, writes |-> {}]

(***************************************************************************)
(* ParseSpec: the two geometry_parse calls of transition_get_image         *)
(* (lines 453-454) on the "start" and "end" properties.                    *)
(***************************************************************************)
ParseInit ==
    /\ pc = "parse_start"
    /\ props \in {[start |-> s, end |-> e, normalised_width |-> NormW,
                   normalised_height |-> NormH] :
                     <<s, e>> \in (ShortTexts \X SampleTexts) \cup (SampleTexts \X ShortTexts)}
    /\ start = NoGeometry
    /\ end = NoGeometry
    /\ result = NoGeometry
    /\ conv = [start |-> NoConv, end |-> NoConv]
    /\ image = <<>>
    /\ size_b = <<0, 0>>
    /\ io = NoIo
    /\ ret = 0

\* start and end receive what geometry_parse returned.
StartParsed(r) == start' = r[1] /\ conv' = [conv EXCEPT !.start = r[2]]
EndParsed(r) == end' = r[1] /\ conv' = [conv EXCEPT !.end = r[2]]

\* geometry_parse( &start, NULL, "start", normalised_width, normalised_height )
ParseStart ==
    /\ pc = "parse_start"
    /\ \E u \in Uninitialised :
          StartParsed(geometry_parse(u, NullGeometry, props.start,
                                     props.normalised_width, props.normalised_height))
    /\ pc' = "parse_end"
    /\ UNCHANGED <<props, end, result, image, size_b, io, ret>>

\* geometry_parse( &end, &start, "end", normalised_width, normalised_height ).
\* With defaults every member of end that is read is assigned first, so
\* what the struct held before does not show.
ParseEnd ==
    /\ pc = "parse_end"
    /\ EndParsed(geometry_parse(NoGeometry, start, props.end,
                                 props.normalised_width, props.normalised_height))
    /\ pc' = "parsed"
    /\ UNCHANGED <<props, start, result, image, size_b, io, ret>>

ParseNext == ParseStart \/ ParseEnd

ParseSpec == ParseInit /\ [][ParseNext]_vars

(***************************************************************************)
(* BlendSpec: one call of composite_yuv on buffers of every size up to the *)
(* bounds, for every pixel position of the overlay, field and opacity.     *)
(***************************************************************************)
MaxDestW == 2
MaxDestH == 4
MaxSrcW == 4
MaxSrcH == 4
MaxOff == 2

\* Packed 4:2:2 buffers of two bytes a pixel with distinct bytes, the
\* overlay's all different from the base frame's.
DestImage(w, h) == [k \in 0..(2 * w * h - 1) |-> 16 + k]
SrcImage(w, h) == [k \in 0..(2 * w * h - 1) |-> 128 + k]

\* The alpha mask of the overlay: none, 255 everywhere, 0 everywhere, or
\* 255 and 0 alternating.
AlphaKinds == {"none", "opaque", "clear", "mixed"}
AlphaMask(kind, w, h) ==
    IF kind = "none" THEN NullAlpha
    ELSE Alpha([k \in 0..(w * h - 1) |->
                   CASE kind = "opaque" -> 255
                     [] kind = "clear" -> 0
                     [] OTHER -> IF k % 2 = 0 THEN 255 ELSE 0])

\* The opacities of a call: geometry.mix and the alpha mask.
Opacities ==
    {<<0, "none">>, <<100, "none">>, <<100, "opaque">>, <<100, "clear">>, <<50, "mixed">>}
Fields == {-1, 0, 1}

\* A geometry whose x, y resolve to pixel ( px, py ) of a width x height
\* destination: x = px - 0.5 in a normalised frame of the destination's size.
GeometryAt(px, py, mix, width, height) ==
    [NoGeometry EXCEPT !.nw = width, !.nh = height,
                       !.x = RSub(RInt(px), Half), !.y = RSub(RInt(py), Half),
                       !.mix = RInt(mix)]

BlendInit ==
    /\ pc = "blend"
    /\ \E wd \in 1..MaxDestW, hd \in 1..MaxDestH, ws \in 1..MaxSrcW, hs \in 1..MaxSrcH,
          px \in (-MaxOff)..MaxOff, py \in (-MaxOff)..MaxOff,
          o \in Opacities, field \in Fields :
          /\ props = [width_dest |-> wd, height_dest |-> hd,
                      width_src |-> ws, height_src |-> hs, alpha |-> o[2],
                      geometry |-> GeometryAt(px, py, o[1], wd, hd), field |-> field]
          /\ image = DestImage(wd, hd)
    /\ start = NoGeometry
    /\ end = NoGeometry
    /\ result = NoGeometry
    /\ conv = [start |-> NoConv, end |-> NoConv]
    /\ size_b = <<0, 0>>
    /\ io = NoIo
    /\ ret = 0

\* The overlay, its alpha mask and the cropped extents of the call of props.
BlendSrc == SrcImage(props.width_src, props.height_src)
BlendAlpha == AlphaMask(props.alpha, props.width_src, props.height_src)
BlendExtent ==
    composite_extent(props.width_dest, props.height_dest,
                     props.width_src, props.height_src, props.geometry, props.field)

\* The destination and the accesses are those of r.
Blended(r) ==
    /\ image' = r.dest
    /\ io' = [io EXCEPT !.reads = r.reads, !.areads = r.areads, !.writes = r.writes,
                        !.log = Append(@, <<"composite_yuv", props.field>>)]

\* The call returns (ret = 0, line 302).
Composite ==
    /\ pc = "blend"
    /\ Blended(composite_yuv(image, props.width_dest, props.height_dest,
                             BlendSrc, props.width_src, props.height_src,
                             BlendAlpha, props.geometry, props.field))
    /\ ret' = 0
    /\ pc' = "blended"
    /\ UNCHANGED <<props, start, end, result, conv, size_b>>

\* An access outside a buffer ends the process instead.
CompositeFault ==
    /\ pc = "blend"
    /\ \E n \in FaultPoints(image, BlendSrc, BlendAlpha, BlendExtent) :
          Blended(composite_loop(image, BlendSrc, BlendAlpha, BlendExtent, n))
    /\ pc' = "fault"
    /\ UNCHANGED <<props, start, end, result, conv, size_b, ret>>

BlendNext == Composite \/ CompositeFault

BlendSpec == BlendInit /\ [][BlendNext]_vars

(***************************************************************************)
(* The steps of get_b_frame_image (lines 309-408) on the geometry of       *)
(* result: the negotiation of the size, and the request to the supplier    *)
(* of the b_frame, which succeeds or fails.                                *)
(***************************************************************************)
\* The b_frame's image of the negotiated size, and the alpha mask
\* mlt_frame_get_alpha_mask returns for it.
ImageB == SrcImage(size_b[1], size_b[2])
AlphaB == AlphaMask(props.alpha, size_b[1], size_b[2])

\* Lines 383-403 on the geometry g of lines 315-386.
Negotiated(g) ==
    /\ result' = g
    /\ size_b' = <<ScaledWidth(g, props.width), ScaledHeight(g, props.height)>>
    /\ pc' = IF NothingToDraw(PixelX(g, props.width), PixelY(g, props.height),
                              ScaledWidth(g, props.width), ScaledHeight(g, props.height))
             THEN "nothing" ELSE "request"
    /\ props' = [props EXCEPT !.b.distort = <<"t", "r", "u", "e">>]

\* Lines 315-403: return 1 (nothing to draw) or go on to the request.
Negotiate ==
    /\ pc = "negotiate"
    /\ Negotiated(get_b_frame_image(result, props.distort, props.b))
    /\ UNCHANGED <<start, end, conv, image, io, ret>>

\* A division by 0 at line 357 or 362 ends the process.
NegotiateFault ==
    /\ pc = "negotiate"
    /\ scale_faults(result, props.distort, props.b)
    /\ pc' = "fault"
    /\ UNCHANGED <<props, start, end, result, conv, image, size_b, io, ret>>

\* Line 405: mlt_frame_get_image( b_frame, ... ) returns ret.
Requested(r) ==
    io' = [io EXCEPT !.log = Append(@, <<"get_image", size_b[1], size_b[2], r>>)]

\* The supplier produces the image of the requested size.
Supply ==
    /\ pc = "request"
    /\ Requested(0)
    /\ pc' = "supplied"
    /\ UNCHANGED <<props, start, end, result, conv, image, size_b, ret>>

\* The supplier cannot produce the image.
SupplyFails ==
    /\ pc = "request"
    /\ Requested(1)
    /\ pc' = "failed"
    /\ UNCHANGED <<props, start, end, result, conv, image, size_b, ret>>

(***************************************************************************)
(* ScaleSpec: get_b_frame_image on every box, position, native size and    *)
(* aspect ratio of the sets below, in a square frame shown at its          *)
(* normalised size.                                                        *)
(***************************************************************************)
Frame == 40
MaxBox == 3

\* The sizes w, h of the box: the halves from -1 to MaxBox, and the frame.
Boxes == {Rat(k, 2) : k \in (-2)..(2 * MaxBox)} \cup {RInt(Frame)}

\* geometry.x and geometry.y of the pixel positions -2, 0 and the frame's
\* edge (alignment_calculate adds 0.5, the conversion to pixels another 0.5).
Corners == {RInt(-3), RInt(-1), RInt(Frame - 1)}

\* real_width x real_height of the b_frame.
NativeSizes == {<<100, 50>>, <<1, 1>>, <<0, 1>>, <<3, 2>>}

\* The aspect ratio of the b_frame and the consumer's.
InputRatios == {Rat(1, 2), RInt(1), RInt(2)}
OutputRatios == {RInt(1), RInt(2)}

\* The "distort" property of the transition.
Distorts == {Null, <<"1">>}

\* halign, valign.
Alignments == {<<0, 0>>, <<1, 2>>}

BFrame(size, input_ar, output_ar) ==
    [distort |-> Null, real_width |-> size[1], real_height |-> size[2],
     input_ar |-> input_ar, output_ar |-> output_ar]

ScaleInit ==
    /\ pc = "negotiate"
    /\ \E size \in NativeSizes, input_ar \in InputRatios, output_ar \in OutputRatios,
          distort \in Distorts :
          props = [width |-> Frame, height |-> Frame, distort |-> distort,
                   alpha |-> "none", b |-> BFrame(size, input_ar, output_ar)]
    /\ \E x \in Corners, y \in Corners, w \in Boxes, h \in Boxes, a \in Alignments :
          result = [NoGeometry EXCEPT !.nw = Frame, !.nh = Frame,
                                      !.x = x, !.y = y, !.w = w, !.h = h,
                                      !.mix = RInt(100), !.halign = a[1], !.valign = a[2]]
    /\ start = NoGeometry
    /\ end = NoGeometry
    /\ conv = [start |-> NoConv, end |-> NoConv]
    /\ image = <<>>
    /\ size_b = <<0, 0>>
    /\ io = NoIo
    /\ ret = 0

ScaleNext == Negotiate \/ NegotiateFault \/ Supply \/ SupplyFails

ScaleSpec == ScaleInit /\ [][ScaleNext]_vars

(***************************************************************************)
(* Spec: one frame through composite_process and transition_get_image.     *)
(* The a_frame's image has the normalised size Side x Side; the supplier   *)
(* produces the b_frame's image at the requested size.                     *)
(***************************************************************************)
Side == 4
MaxDoublings == 1

\* out - in + 1 of the transition: the lengths whose positions and deltas a
\* float holds exactly, so that geometry_calculate is exact at each of them.
Lengths == {Pow2(k) : k \in 0..MaxDoublings}

\* The "start" and "end" properties: a box that stays, one that moves and
\* fades, one left of the frame, one right of it, one that starts above
\* it, one of negative width, and a "start" without fields.
Keyframes ==
    {<<<<"0", ",", "0", ":", "2", "x", "2">>, <<>>>>,
     <<<<"0", ",", "0", ":", "2", "x", "2">>, <<"2", ",", "2", ":", "4", "x", "4", ":", "5", "0">>>>,
     <<<<"-", "4", ",", "0", ":", "2", "x", "2">>, <<>>>>,
     <<<<"4", ",", "0", ":", "2", "x", "2">>, <<>>>>,
     <<<<"0", ",", "-", "4", ":", "2", "x", "4">>, Null>>,
     <<<<"0", ",", "0", ":", "-", "2", "x", "2">>, <<>>>>,
     <<<<>>, <<>>>>}

\* "progressive" and "consumer_progressive" of the a_frame, "progressive"
\* of the transition.
ProgressiveFlags == {<<0, 0, 0>>, <<1, 0, 0>>, <<0, 1, 0>>, <<0, 0, 1>>}

\* "halign", "valign" of the transition.
AlignTexts == {<<Null, Null>>, <<<<"c">>, <<"2">>>>}

\* The b_frame: 2x2 of aspect ratio 1, or 1x1 of aspect ratio 1/2; its
\* consumer_aspect_ratio is not set yet.
Overlays == {BFrame(<<2, 2>>, RInt(1), RInt(0)), BFrame(<<1, 1>>, Rat(1, 2), RInt(0))}

Init ==
    /\ pc = "process"
    /\ \E k \in Keyframes, length \in Lengths, f \in ProgressiveFlags,
          distort \in Distorts, a \in AlignTexts, alpha \in {"none", "mixed"},
          b \in Overlays :
          \E position \in 0..(length - 1) :
             props = [start |-> k[1], end |-> k[2],
                      normalised_width |-> Side, normalised_height |-> Side,
                      halign |-> a[1], valign |-> a[2],
                      in |-> 0, out |-> length - 1, position |-> position,
                      progressive |-> f[1], consumer_progressive |-> f[2],
                      transition_progressive |-> f[3],
                      distort |-> distort, consumer_aspect_ratio |-> RInt(1),
                      b |-> b,
                      width |-> Side, height |-> Side, alpha |-> alpha]
    /\ start = NoGeometry
    /\ end = NoGeometry
    /\ result = NoGeometry
    /\ conv = [start |-> NoConv, end |-> NoConv]
    /\ image = <<>>
    /\ size_b = <<0, 0>>
    /\ io = NoIo
    /\ ret = 0

\* composite_process: the b_frame and transition_get_image are pushed on
\* the a_frame.
Process ==
    /\ pc = "process"
    /\ io' = [io EXCEPT !.log = Append(@, <<"composite_process">>)]
    /\ pc' = "get_image"
    /\ UNCHANGED <<props, start, end, result, conv, image, size_b, ret>>

\* position and delta of the frame (lines 445-446).
Position == position_calculate(props.in, props.out, props.position)
Delta == delta_calculate(props.in, props.out, props.position)

\* result with the alignments of lines 457-458.
Aligned ==
    [NoGeometry EXCEPT !.halign = alignment_parse(props.halign),
                       !.valign = alignment_parse(props.valign)]

\* Lines 453-466 once start is parsed as r and end as e.
EndCalculated(r, e) ==
    /\ start' = r[1]
    /\ end' = e[1]
    /\ conv' = [start |-> r[2], end |-> e[2]]
    /\ result' = geometry_calculate(Aligned, r[1], e[1], FRat(Position))

Calculated(r) ==
    EndCalculated(r, geometry_parse(NoGeometry, r[1], props.end,
                                    props.normalised_width, props.normalised_height))

\* transition_get_image up to the call of get_b_frame_image (lines 417-472):
\* the a_frame's image, the two keyframes, the alignment, the consumer
\* properties passed to the b_frame and the geometry at position.
GetImage ==
    /\ pc = "get_image"
    /\ image' = DestImage(props.width, props.height)
    /\ \E u \in Uninitialised :
          Calculated(geometry_parse(u, NullGeometry, props.start,
                                    props.normalised_width, props.normalised_height))
    /\ props' = [props EXCEPT !.b.output_ar = props.consumer_aspect_ratio]
    /\ pc' = "negotiate"
    /\ UNCHANGED <<size_b, io, ret>>

\* Lines 476-478.
Progressive ==
    props.progressive # 0 \/ props.consumer_progressive # 0
        \/ props.transition_progressive # 0

\* The field of the pass at pc, and the selector given to composite_yuv.
FieldOfPass == IF pc = "supplied" THEN 0 ELSE 1
Selector(field) == IF Progressive THEN -1 ELSE field

\* FieldPosition without the delta of the field.
FieldPosition_NoDelta(field) == Position

\* field_position = position + field * delta
FieldPosition(field) == FAdd(Position, FTimesField(field, Delta))

\* Lines 487-490: the geometry of the pass.
FieldGeometry(field) ==
    alignment_calculate(geometry_calculate(result, start, end, FRat(FieldPosition(field))))

\* The extents of the pass with geometry g.
FieldExtent(g, field) ==
    composite_extent(props.width, props.height, size_b[1], size_b[2], g, Selector(field))

\* The pass with geometry g has left r.
Passed(g, field, r) ==
    /\ result' = g
    /\ image' = r.dest
    /\ io' = [io EXCEPT !.log = Append(@, <<"composite_yuv", Selector(field), g>>),
                        !.reads = @ \cup r.reads, !.areads = @ \cup r.areads,
                        !.writes = @ \cup r.writes]

Pass(g, field) ==
    Passed(g, field, composite_yuv(image, props.width, props.height,
                                   ImageB, size_b[1], size_b[2], AlphaB, g, Selector(field)))

PassFaults(g, field, e) ==
    \E n \in FaultPoints(image, ImageB, AlphaB, e) :
        Passed(g, field, composite_loop(image, ImageB, AlphaB, e, n))

\* One iteration of the loop of lines 481-493.
FieldPass ==
    /\ pc \in {"supplied", "field1"}
    /\ Pass(FieldGeometry(FieldOfPass), FieldOfPass)
    /\ pc' = IF Progressive \/ FieldOfPass = 1 THEN "return" ELSE "field1"
    /\ UNCHANGED <<props, start, end, conv, size_b, ret>>

\* An access outside a buffer ends the process during the pass.
FieldFault ==
    /\ pc \in {"supplied", "field1"}
    /\ PassFaults(FieldGeometry(FieldOfPass), FieldOfPass,
                  FieldExtent(FieldGeometry(FieldOfPass), FieldOfPass))
    /\ pc' = "fault"
    /\ UNCHANGED <<props, start, end, conv, size_b, ret>>

\* return 0 (line 498), whatever get_b_frame_image returned.
Return ==
    /\ pc \in {"nothing", "failed", "return"}
    /\ ret' = 0
    /\ pc' = "done"
    /\ UNCHANGED <<props, start, end, result, conv, image, size_b, io>>

Next ==
    \/ Process \/ GetImage
    \/ Negotiate \/ NegotiateFault \/ Supply \/ SupplyFails
    \/ FieldPass \/ FieldFault
    \/ Return

Spec == Init /\ [][Next]_vars

(***************************************************************************)
(* PositionSpec: the interpolation parameters of one frame, position and   *)
(* delta of lines 445-446 and field_position of line 484, for transitions  *)
(* of every length up to MaxSpan frames and for the lengths around the     *)
(* precision of a float.                                                   *)
(***************************************************************************)
MaxSpan == 4
MaxIn == 1

\* out - in + 1 of the long transitions: around 2^(Mantissa-1), a third of
\* 2^(Mantissa+1), 2^Mantissa and 2^(Mantissa+1).
LongSpans ==
    {Pow2(Mantissa - 1), Pow2(Mantissa + 1) \div 3, Pow2(Mantissa + 1) \div 3 + 1,
     Pow2(Mantissa) - 1, Pow2(Mantissa), Pow2(Mantissa) + 1, Pow2(Mantissa + 1)}

Spans == (1..MaxSpan) \cup LongSpans

\* The positions of the frame: each of a short transition, the first two,
\* the middle and the last two of a long one.
Timestamps(in, out) ==
    IF out - in < MaxSpan THEN in..out
    ELSE {in, in + 1, in + (out - in) \div 2, out - 1, out}

PositionInit ==
    /\ pc = "get_image"
    /\ \E in \in 0..MaxIn, span \in Spans, f \in ProgressiveFlags :
          \E position \in Timestamps(in, in + span - 1) :
             props = [in |-> in, out |-> in + span - 1, position |-> position,
                      progressive |-> f[1], consumer_progressive |-> f[2],
                      transition_progressive |-> f[3]]
    /\ start = NoGeometry
    /\ end = NoGeometry
    /\ result = NoGeometry
    /\ conv = [start |-> NoConv, end |-> NoConv]
    /\ image = <<>>
    /\ size_b = <<0, 0>>
    /\ io = NoIo
    /\ ret = 0

\* Lines 445-446.
PositionCalculated ==
    /\ pc = "get_image"
    /\ io' = [io EXCEPT !.log = @ \o <<<<"position", Position>>, <<"delta", Delta>>>>]
    /\ pc' = "supplied"
    /\ UNCHANGED <<props, start, end, result, conv, image, size_b, ret>>

\* Line 484 of one iteration of the loop of lines 481-493.
FieldPositioned ==
    /\ pc \in {"supplied", "field1"}
    /\ io' = [io EXCEPT !.log = Append(@, <<"field_position", FieldOfPass,
                                             FieldPosition(FieldOfPass)>>)]
    /\ pc' = IF Progressive \/ FieldOfPass = 1 THEN "return" ELSE "field1"
    /\ UNCHANGED <<props, start, end, result, conv, image, size_b, ret>>

PositionNext == PositionCalculated \/ FieldPositioned

PositionSpec == PositionInit /\ [][PositionNext]_vars

(***************************************************************************)
(* Claims about the parser (ParseSpec).                                    *)
(***************************************************************************)
\* X=0, Y=0, W=0, H=0, MIX=100.
NoDefaultsValue(f) == IF f = "mix" THEN RInt(100) ELSE RInt(0)

\* C7: once the start keyframe is parsed (no defaults supplied), every field
\* whose token is missing from the text (the text is exhausted, absent or
\* empty) is X=0, Y=0, W=0, H=0 or MIX=100.  The code assigns only mix and
\* returns what the uninitialised struct held for the others.
C7_StartDefaults ==
    pc \in {"parse_end", "parsed"} =>
        \A f \in FieldNames :
            conv.start[f] \in {"absent", "none"} => FieldOf(start, f) = NoDefaultsValue(f)

\* C8: once the end keyframe is parsed with the start keyframe as defaults,
\* every field whose token is absent or is not a parseable number has the
\* value of the same field of the defaults.  The code stores strtod's 0 for a
\* token that is present and not a number.
C8_EndFallsBackToDefaults ==
    pc = "parsed" =>
        \A f \in FieldNames :
            conv.end[f] \in {"absent", "none", "unparsed"} =>
                FieldOf(end, f) = FieldOf(start, f)

(***************************************************************************)
(* Claims about the blend (BlendSpec).                                     *)
(***************************************************************************)
Returned == pc = "blended"
Ended == pc \in {"blended", "fault"}

\* The row (0-based) of a destination byte offset.
RowOf(offset) == offset \div (2 * props.width_dest)
WrittenRows == {RowOf(o) : o \in io.writes}

\* The resolved pixel position of the overlay's top left corner, before
\* cropping.
OverlayX == BlendExtent.x - BlendExtent.x_src
OverlayY == BlendExtent.y

\* C1: in interlaced mode every destination row written by the field=0 pass
\* is odd and every row written by the field=1 pass is even, for every
\* resolved row py; on a 4-row destination with an overlay of at least 4
\* rows at px=0, py=0, field=0 writes exactly rows {1,3} and field=1
\* exactly {0,2}.
\* The code tests the parity of the uncropped y: at py=-1 the field=0 pass
\* starts on row 0.
C1_FieldParity ==
    Ended /\ props.field \in {0, 1} =>
        /\ \A r \in WrittenRows : r % 2 = 1 - props.field
        /\ (Returned /\ props.height_dest = 4 /\ OverlayX = 0 /\ OverlayY = 0
               /\ props.height_src >= 4) =>
               WrittenRows = (IF props.field = 0 THEN {1, 3} ELSE {0, 2})

\* C5: a blend call with mix=0, or with an alpha mask that is 0 everywhere,
\* leaves every byte of the destination buffer unchanged, for every
\* geometry, buffer size and field selector.
C5_ZeroOpacityKeepsDestination ==
    Ended /\ (props.geometry.mix = RInt(0) \/ props.alpha = "clear") =>
        image = DestImage(props.width_dest, props.height_dest)

\* C5 witness: a returned interlaced call with a fully transparent mask at
\* mix=100 that wrote destination bytes, after cropping at the left.
C5_Witness ==
    /\ Returned /\ props.alpha = "clear" /\ props.geometry.mix = RInt(100)
    /\ props.field = 1 /\ BlendExtent.x_src > 0
    /\ io.writes # {} /\ io.writes \subseteq DOMAIN image

\* The destination pixels the overlay covers: the overlay's rectangle at
\* ( OverlayX, OverlayY ) cropped to the destination.
CoveredCols ==
    {c \in 0..(props.width_dest - 1) : OverlayX <= c /\ c < OverlayX + props.width_src}
CoveredRows ==
    {r \in 0..(props.height_dest - 1) : OverlayY <= r /\ r < OverlayY + props.height_src}
Covered(offset) ==
    /\ RowOf(offset) \in CoveredRows
    /\ (offset % (2 * props.width_dest)) \div 2 \in CoveredCols

\* The source byte that belongs at a covered destination byte offset.
SourceByteFor(offset) ==
    BlendSrc[2 * ((RowOf(offset) - OverlayY) * props.width_src
                  + ((offset % (2 * props.width_dest)) \div 2 - OverlayX))
             + (offset % 2)]

\* C6: a progressive call with mix=100 and no alpha mask or a mask that is
\* 255 everywhere makes every destination sample inside the overlay's
\* cropped rectangle equal to the source sample at the corresponding cropped
\* position, and leaves every sample outside the rectangle unchanged.  With
\* the overlay starting left of the destination and wider than it, the code
\* writes past the end of the row into the next one.
C6_FullOpacityCopiesSource ==
    (Returned /\ props.field = -1 /\ props.geometry.mix = RInt(100)
        /\ props.alpha \in {"none", "opaque"}) =>
        \A o \in DOMAIN image :
            image[o] = IF Covered(o) THEN SourceByteFor(o)
                       ELSE DestImage(props.width_dest, props.height_dest)[o]

\* C9: every source byte and every alpha byte a blend call reads lies inside
\* the source buffer (2 bytes a pixel) and the alpha mask (1 byte a pixel)
\* of width_src x height_src pixels, for every geometry, field and size.
C9_SourceReadsInBounds ==
    Ended =>
        /\ io.reads \subseteq 0..(2 * props.width_src * props.height_src - 1)
        /\ io.areads \subseteq 0..(props.width_src * props.height_src - 1)

\* C9 witness: the second field pass of an overlay cropped at the left and
\* at the top read source and alpha bytes.
C9_Witness ==
    /\ Returned /\ props.field = 1 /\ props.alpha = "mixed"
    /\ BlendExtent.x_src > 0 /\ BlendExtent.y_src > 0
    /\ io.reads # {} /\ io.areads # {}

\* C12: every byte a blend call writes lies inside the destination buffer
\* of width_dest x height_dest pixels (2 bytes a pixel) and inside the
\* destination columns and rows the overlay's cropped rectangle covers, for
\* every geometry, field selector and size: no write lands before row 0,
\* after the last row, or past the right edge of its row.
C12_WritesInsideCover ==
    Returned => \A o \in io.writes : o \in DOMAIN image /\ Covered(o)

(***************************************************************************)
(* Claims about the negotiation (ScaleSpec).                               *)
(***************************************************************************)
AfterNegotiation == pc \in {"nothing", "request", "supplied", "failed"}

\* The overlay buffer has been requested from the supplier.
BufferRequests == {k \in 1..Len(io.log) : io.log[k][1] = "get_image"}

\* The resolved pixel position and the final size of the overlay.
FinalX == PixelX(result, props.width)
FinalY == PixelY(result, props.height)
Degenerate == size_b[1] <= 0 \/ size_b[2] <= 0
LeftOrAbove == (FinalX < 0 /\ -FinalX >= size_b[1]) \/ (FinalY < 0 /\ -FinalY >= size_b[2])
RightOrBelow == FinalX >= props.width \/ FinalY >= props.height

\* C3: if either final scaled dimension is <= 0, or the resolved pixel
\* position places the overlay entirely left of, above, right of or below
\* the destination, negotiation returns the nothing-to-draw result and the
\* supplier is never asked for the overlay buffer.
C3_OutsideIsNeverRequested ==
    AfterNegotiation /\ (Degenerate \/ LeftOrAbove \/ RightOrBelow) =>
        pc = "nothing" /\ BufferRequests = {}

\* C3 as the code has it: negotiation returns the nothing-to-draw result,
\* and the supplier is never asked, exactly when a final dimension is <= 0
\* or the overlay lies entirely left of or above the destination; an
\* overlay of positive size entirely right of or below it is requested.
C3_LeftOrAboveIsNeverRequested ==
    AfterNegotiation =>
        /\ (Degenerate \/ LeftOrAbove) <=> pc = "nothing"
        /\ pc = "nothing" => BufferRequests = {}
        /\ pc \in {"supplied", "failed"} => Cardinality(BufferRequests) = 1

\* C3 witness: an overlay of positive size entirely left of the destination
\* got the nothing-to-draw result.
C3_Witness ==
    /\ pc = "nothing" /\ ~Degenerate /\ FinalX < 0 /\ -FinalX >= size_b[1]
    /\ FinalY >= 0 /\ BufferRequests = {}

\* The scaled size is within the box.
WithinBox == RLe(RInt(result.sw), result.w) /\ RLe(RInt(result.sh), result.h)
Truncated == result.sw = RTrunc(result.w) /\ result.sh = RTrunc(result.h)

\* Native 100x50 of aspect ratio 2 into a 40x40 box, square pixels, no
\* distortion.
ClampExample ==
    /\ props.distort = Null
    /\ props.b.real_width = 100 /\ props.b.real_height = 50
    /\ props.b.input_ar = RInt(2) /\ props.b.output_ar = RInt(1)
    /\ result.nw = result.nh
    /\ result.w = RInt(40) /\ result.h = RInt(40)

\* C4: after scale negotiation sw <= w and sh <= h for every native size,
\* aspect ratio and box; with distortion sw, sh are w, h truncated to
\* integers; native 100x50 into a 40x40 box gives 40x20.
C4_ScaledWithinBox ==
    AfterNegotiation =>
        /\ WithinBox
        /\ props.distort # Null => Truncated
        /\ ClampExample => result.sw = 40 /\ result.sh = 20

\* C4 as the code has it: sw and sh never exceed w and h truncated toward
\* zero, so sw <= w and sh <= h for every box with w >= 0 and h >= 0 (a
\* negative fractional size truncates to a larger integer); with distortion
\* sw, sh are w, h truncated; native 100x50 into a 40x40 box gives 40x20.
C4_ScaledWithinTruncatedBox ==
    AfterNegotiation =>
        /\ result.sw <= RTrunc(result.w) /\ result.sh <= RTrunc(result.h)
        /\ (RLe(RInt(0), result.w) /\ RLe(RInt(0), result.h)) => WithinBox
        /\ props.distort # Null => Truncated
        /\ ClampExample => result.sw = 40 /\ result.sh = 20

\* C4 witness: the 100x50 overlay was fitted into the 40x40 box as 40x20.
C4_Witness ==
    AfterNegotiation /\ ClampExample /\ result.sw = 40 /\ result.sh = 20

(***************************************************************************)
(* Claims about the process call (Spec).                                   *)
(***************************************************************************)
\* The blend passes of the call, in order.
IsPass(entry) == entry[1] = "composite_yuv"
BlendPasses == SelectSeq(io.log, IsPass)

\* The outcome of the request of the overlay buffer.
SupplyFailed == \E k \in BufferRequests : io.log[k][4] # 0
SupplySucceeded == \E k \in BufferRequests : io.log[k][4] = 0

\* C2: when the supplier fails to produce the overlay's buffer, the process
\* call returns a non-success status and no blend pass is run.  The code
\* returns 0 (line 498).
C2_SupplyFailurePropagates ==
    pc = "done" /\ SupplyFailed => ret # 0 /\ BlendPasses = <<>>

\* The geometry the pass of field f must be given: the keyframes
\* interpolated at position + f * fieldDelta, aligned by the scaled size.
ExpectedPosition(f) ==
    FRat(FAdd(position_calculate(props.in, props.out, props.position),
              FTimesField(f, delta_calculate(props.in, props.out, props.position))))
ExpectedPass(f, field) ==
    <<"composite_yuv", field,
      alignment_calculate(geometry_calculate(result, start, end, ExpectedPosition(f)))>>

\* C10: in a process call where the overlay buffer is obtained, the buffer
\* is requested exactly once and before any blend pass; if one of the three
\* progressive flags is set exactly one pass runs, with field=-1, otherwise
\* exactly two, field=0 then field=1, the pass f with the geometry
\* interpolated at position + f*fieldDelta.  No pass ever runs before the
\* buffer is obtained.
C10_RequestThenFieldPasses ==
    /\ \A k \in 1..Len(io.log) :
          IsPass(io.log[k]) => \E j \in 1..(k - 1) : j \in BufferRequests /\ io.log[j][4] = 0
    /\ pc = "done" /\ SupplySucceeded =>
          /\ io.log = <<<<"composite_process">>, <<"get_image", size_b[1], size_b[2], 0>>>>
                          \o BlendPasses
          /\ BlendPasses =
                IF props.progressive # 0 \/ props.consumer_progressive # 0
                       \/ props.transition_progressive # 0
                THEN <<ExpectedPass(0, -1)>>
                ELSE <<ExpectedPass(0, 0), ExpectedPass(1, 1)>>

\* C10 witness: an interlaced call on a moving box has returned after its
\* two passes, which had different geometries and changed the image.
C10_Witness ==
    /\ pc = "done" /\ SupplySucceeded /\ Len(BlendPasses) = 2
    /\ BlendPasses[1][3] # BlendPasses[2][3]
    /\ image # DestImage(props.width, props.height)

(***************************************************************************)
(* Claims about the interpolation parameters (PositionSpec).               *)
(***************************************************************************)
\* The floats the frame has computed so far.
Positions == {io.log[i][2] : i \in {j \in DOMAIN io.log : io.log[j][1] = "position"}}
FieldPositions ==
    {io.log[i][3] : i \in {j \in DOMAIN io.log : io.log[j][1] = "field_position"}}
Parameters == Positions \cup FieldPositions

\* 0 <= x < 1 and 0 <= x <= 1 of a float x.
One == <<Pow2(Mantissa - 1), Mantissa - 1>>
InUnitInterval(x) == x = FZero \/ (x[1] > 0 /\ x[2] >= Mantissa)
UpToOne(x) == InUnitInterval(x) \/ x = One

\* The length of the transition in frames.
Span == props.out - props.in + 1

\* position is 0 at the first frame of the transition.
StartsAtZero == props.position = props.in => \A x \in Positions : x = FZero

\* C11 as stated: for in <= timestamp <= out, position is 0 at timestamp = in,
\* and position and the field_position of each field pass are in [0, 1).
C11_ParametersBelowOne ==
    /\ StartsAtZero
    /\ \A x \in Parameters : InUnitInterval(x)

\* C11 as the code has it: position is 0 at timestamp = in; position and
\* each field_position are in [0, 1], and in [0, 1) while 3 * (out - in + 1)
\* is at most 2^(Mantissa+1).
C11_ParametersWithinOne ==
    /\ StartsAtZero
    /\ \A x \in Parameters : UpToOne(x)
    /\ 3 * Span <= Pow2(Mantissa + 1) => \A x \in Parameters : InUnitInterval(x)

\* C11's case: the last frame of an interlaced transition of more than one
\* frame, both field positions computed and the second above the first.
C11_Witness ==
    /\ pc = "return"
    /\ props.position = props.out
    /\ props.out > props.in
    /\ Len(io.log) = 4
    /\ io.log[3][3] = io.log[1][2]
    /\ io.log[4][3] # io.log[3][3]
    /\ FLe(io.log[3][3], io.log[4][3])
    /\ InUnitInterval(io.log[4][3])

====
